---- MODULE Spec2Model ----
(***************************************************************************)
(* Model of the Telegram stock-analysis bot: one run of handle_message     *)
(* (src/app.py) over one inbound update, together with the clients it      *)
(* calls (chart renderer, OCR, analysis engine, news enrichment).  Every   *)
(* external call and every outbound send is a step whose outcome the       *)
(* environment chooses.                                                    *)
(***************************************************************************)
EXTENDS Integers, Sequences, FiniteSets, TLC

VARIABLES
    pc,              \* position of the handler inside handle_message
    update,          \* the inbound update: shape, chat, text
    cfg,             \* API keys read at import time (ai_analysis.py:10-11)
    chat_id,         \* message.chat.id (app.py:111), 0 before it is read
    stock_symbol,    \* text.strip().upper() (app.py:119)
    chart_url,       \* result of fetch_stock_chart (app.py:123)
    analysis_prompt, \* result of analyze_stock_chart_with_ocr (app.py:128)
    analysis_result, \* result of the awaited analysis (app.py:132)
    hist,            \* historical_data of async_chain_func: fetched?, data
    elapsed,         \* time spent inside asyncio.wait_for so far
    llm_delay,       \* time the completion service takes to answer
    llm_task,        \* state of the completion-service request
    llm_resp,        \* what the completion service answered (or would have)
    llm_calls,       \* number of requests posted to the completion service
    timed_out,       \* asyncio.TimeoutError was raised by wait_for
    news_source,     \* result of fetch_news_source (app.py:163)
    news_state,      \* fetch_news_source: "none", "returned" or "raised"
    news_idx,        \* loop index of `for news in news_source`
    outbox,          \* every attempted bot.send_message / bot.send_photo
    calls,           \* every stage / service invocation, in order
    returned,        \* how handle_message ended
    probe            \* input and result of a client called on its own

vars == <<pc, update, cfg, chat_id, stock_symbol, chart_url, analysis_prompt,
          analysis_result, hist, elapsed, llm_delay, llm_task, llm_resp, llm_calls, timed_out,
          news_source, news_state, news_idx, outbox, calls, returned, probe>>

-----------------------------------------------------------------------------
(* Bounds and program constants *)

MaxNews == 2
NumChats == 2
MaxEntries == 2
MaxScore == 600
MaxSeries == 3
TIMEOUT == 120
TABLE_ROWS == 30
THRESHOLD == 500

Chats == 1..NumChats
Delays == {0, 70, 130}

-----------------------------------------------------------------------------
(* Inbound text and its normalisation *)

NoText == <<"<None>">>
Texts == {NoText, <<>>, <<" ">>, <<" ", "a", " ">>}

RECURSIVE LStrip(_)
LStrip(s) == IF s # <<>> /\ Head(s) = " " THEN LStrip(Tail(s)) ELSE s

RECURSIVE RStrip(_)
RStrip(s) ==
    IF s # <<>> /\ s[Len(s)] = " " THEN RStrip(SubSeq(s, 1, Len(s) - 1)) ELSE s

Upper(s) == [i \in 1..Len(s) |-> IF s[i] = "a" THEN "A" ELSE s[i]]

\* text.strip().upper()
StripUpper(s) == Upper(RStrip(LStrip(s)))

\* `if not text`: None and "" are falsy
TextFalsy(t) == t = NoText \/ t = <<>>

\* message = update.message if update.message else update.channel_post
Message(u) == IF u.shape = "none" THEN "none" ELSE "present"

-----------------------------------------------------------------------------
(* Chart renderer client: fetch_stock_chart *)

ChartResps == {"ok_url", "ok_no_url", "ok_empty_url", "ok_bad_json",
               "non200", "transport"}

\* the value returned, or "RAISE" when requests.get / response.json() raises
fetch_stock_chart(resp) ==
    CASE resp = "transport"    -> "RAISE"
      [] resp = "non200"       -> "None"
      [] resp = "ok_bad_json"  -> "RAISE"
      [] resp = "ok_no_url"    -> "None"
      [] resp = "ok_empty_url" -> ""
      [] resp = "ok_url"       -> "URL"

ChartTruthyMut(u) == u # ""
\* `if chart_url:`
ChartTruthy(u) == u = "URL"

-----------------------------------------------------------------------------
(* Text extraction client: analyze_stock_chart_with_ocr *)

OcrResps == {"ok", "non200", "exit_code", "transport"}

\* every exception is caught inside; the result is always a string
analyze_stock_chart_with_ocr(resp) ==
    CASE resp = "ok"        -> "OcrPrompt"
      [] resp = "non200"    -> "OcrErrorStatus"
      [] resp = "exit_code" -> "OcrErrorExit"
      [] resp = "transport" -> "OcrErrorException"

-----------------------------------------------------------------------------
(* Market data client: async_fetch_historical_data *)

\* one item of "Time Series (Daily)": a well-formed record, a record whose
\* close or volume does not parse as a number, a record without the two
\* fields (the defaults 0 apply), or a value that is no record at all
EntryKinds == {"ok", "bad_value", "missing", "not_dict"}

SampleEntries == <<[date |-> 2, close |-> 10, volume |-> 5, kind |-> "ok"],
                   [date |-> 1, close |-> 8, volume |-> 7, kind |-> "ok"]>>

\* the responses of the historical-price service met inside handle_message
HistResps ==
    {[kind |-> "ok", entries |-> SampleEntries]}
    \cup {[kind |-> k, entries |-> <<>>] : k \in {"ok", "non200", "bad_json", "transport"}}

\* one iteration of `for date, values in time_series.items()`
EntryOutcome(e) ==
    CASE e.kind = "not_dict"  -> "AttributeError"
      [] e.kind = "bad_value" -> "skip"
      [] e.kind = "missing"   -> "point"
      [] e.kind = "ok"        -> "point"

EntryPoint(e) ==
    IF e.kind = "missing"
       THEN [date |-> e.date, close |-> 0, volume |-> 0]
       ELSE [date |-> e.date, close |-> e.close, volume |-> e.volume]

\* the loop building historical_data; exc names an exception that leaves it
RECURSIVE ParseEntries(_, _)
ParseEntries(entries, acc) ==
    IF entries = <<>> THEN [exc |-> "none", data |-> acc]
    ELSE LET o == EntryOutcome(Head(entries)) IN
         CASE o = "AttributeError" -> [exc |-> o, data |-> <<>>]
           [] o = "skip"  -> ParseEntries(Tail(entries), acc)
           [] o = "point" ->
                ParseEntries(Tail(entries), Append(acc, EntryPoint(Head(entries))))

\* the body of the try block: the exception that leaves it, or the value returned
HistBody(resp) ==
    CASE resp.kind = "transport" -> [exc |-> "ClientError", data |-> <<>>]
      [] resp.kind = "non200"    -> [exc |-> "none", data |-> <<>>]
      [] resp.kind = "bad_json"  -> [exc |-> "ContentTypeError", data |-> <<>>]
      [] resp.kind = "ok"        -> ParseEntries(resp.entries, <<>>)

HistCatchesMut(exc) == exc \in {"ClientError", "ContentTypeError"}
\* `except Exception` around the whole request
HistCatches(exc) == TRUE

async_fetch_historical_data(symbol, key, resp) ==
    IF symbol = <<>> THEN [raised |-> FALSE, data |-> <<>>]
    ELSE IF ~key THEN [raised |-> FALSE, data |-> <<>>]
    ELSE LET r == HistBody(resp) IN
         IF r.exc = "none" THEN [raised |-> FALSE, data |-> r.data]
         ELSE IF HistCatches(r.exc) THEN [raised |-> FALSE, data |-> <<>>]
         ELSE [raised |-> TRUE, data |-> <<>>]

\* the request is sent only past the two early returns
HistRequestSent(symbol, key) == symbol # <<>> /\ key

-----------------------------------------------------------------------------
(* Market data digest: format_historical_data.  Prices are in cents. *)

\* sorted(data, key=date, reverse=True): a stable sort, equal dates keep
\* their order
RECURSIVE InsertDesc(_, _)
InsertDesc(sorted, p) ==
    IF sorted = <<>> THEN <<p>>
    ELSE IF Head(sorted).date >= p.date
            THEN <<Head(sorted)>> \o InsertDesc(Tail(sorted), p)
            ELSE <<p>> \o sorted

RECURSIVE SortDesc(_)
SortDesc(data) ==
    IF data = <<>> THEN <<>>
    ELSE InsertDesc(SortDesc(SubSeq(data, 1, Len(data) - 1)), data[Len(data)])

SortedDataMut(data) == data
\* sorted_data
SortedData(data) == SortDesc(data)

RECURSIVE SumVolume(_)
SumVolume(q) == IF q = <<>> THEN 0 ELSE Head(q).volume + SumVolume(Tail(q))

MaxVolume(q) == CHOOSE v \in {q[n].volume : n \in DOMAIN q} :
                    \A n \in DOMAIN q : q[n].volume <= v
MinVolume(q) == CHOOSE v \in {q[n].volume : n \in DOMAIN q} :
                    \A n \in DOMAIN q : q[n].volume >= v

\* the rows of the table: sorted_data[:30]
TableOf(sorted) ==
    SubSeq(sorted, 1, IF Len(sorted) < TABLE_ROWS THEN Len(sorted) ELSE TABLE_ROWS)

\* the summary statistics; the percentage is kept in hundredths of a percent
StatsOf(sorted) ==
    LET oldest == sorted[Len(sorted)]
        newest == sorted[1]
        price_change == newest.close - oldest.close
    IN [oldest_date |-> oldest.date,
        newest_date |-> newest.date,
        price_change |-> price_change,
        price_change_pct |-> IF oldest.close # 0
                                THEN (price_change * 10000) \div oldest.close
                                ELSE 0,
        avg_volume |-> SumVolume(sorted) \div Len(sorted),
        max_volume |-> MaxVolume(sorted),
        min_volume |-> MinVolume(sorted)]

NoStats == [oldest_date |-> 0, newest_date |-> 0, price_change |-> 0,
            price_change_pct |-> 0, avg_volume |-> 0, max_volume |-> 0,
            min_volume |-> 0]

format_historical_data(data) ==
    IF data = <<>>
       THEN [text |-> "No historical data available.", table |-> <<>>, stats |-> NoStats]
       ELSE LET sorted_data == SortedData(data) IN
            [text |-> "table", table |-> TableOf(sorted_data), stats |-> StatsOf(sorted_data)]

-----------------------------------------------------------------------------
(* Completion service: DeepSeekLLM._acall *)

\* "content" is a generated text of at most 4000 characters, "long_content"
\* one of 4001 characters
LLMResps == {"content", "long_content", "empty_content", "malformed", "non200",
             "transport"}

\* the request is posted only when the API key is configured
LLMRequestSent(key) == key

DeepSeekLLM_acall(key, resp) ==
    IF ~key THEN "ApiKeyNotConfigured"
    ELSE CASE resp = "non200"        -> "AnalysisFailedText"
           [] resp = "transport"     -> "AnalysisFailedText"
           [] resp = "malformed"     -> "AnalysisFailedText"
           [] resp = "empty_content" -> "NoResultsText"
           [] resp = "content"       -> "ModelText"
           [] resp = "long_content"  -> "ModelTextLong"

-----------------------------------------------------------------------------
(* Analysis engine: analyze_stock_chart_async / async_chain_func *)

\* the number of characters of a text handed to bot.send_message: the
\* generated texts have the length the completion service gave them, the
\* fixed texts of the program are short
TextLen(t) ==
    CASE t = "ModelTextLong" -> 4001
      [] t = "ModelText"     -> 4000
      [] OTHER               -> 100

\* `x or default` on strings
ResultOr(r, default) == IF r = "" THEN default ELSE r

ChainAfterFetchMut(data) == "call_llm"
\* async_chain_func after the fetch: `if not historical_data: return "Error..."`
ChainAfterFetch(data) ==
    IF data = <<>> THEN "return_data_unavailable" ELSE "call_llm"

ChainAfterCallMut(result, attempts) ==
    IF result = "AnalysisFailedText" /\ attempts < 2 THEN "retry" ELSE "return"
\* async_chain_func after llm._acall: the result is returned, never retried
ChainAfterCall(result, attempts) == "return"

\* what analyze_stock_chart_async hands back for a result of the chain
AnalysisReturn(r) == ResultOr(ResultOr(r, "NoAnalysisText"), "NoAnalysisText")

\* handle_message: `if not analysis_result: analysis_result = "Unable to..."`
HandlerResult(r) == ResultOr(r, "UnableText")

\* asyncio.wait_for(..., timeout=120) gives up once the budget is exceeded
WaitForExpired(t) == t > TIMEOUT

-----------------------------------------------------------------------------
(* News enrichment client: fetch_news_source and classify_sentiment *)

Scores == {-THRESHOLD, THRESHOLD}

\* an article of the response: whether it carries "title" and "url", its
\* summary field, and the compound score (in ten-thousandths) the analyzer gives
\* the text classified for it.  The analyzer is not consulted for an absent
\* or empty summary; the scores given here for those are what it would say
\* of the placeholder, chosen away from neutral.
ArticleBodies ==
    {[summary |-> "absent", score |-> THRESHOLD], [summary |-> "empty", score |-> -THRESHOLD]}
    \cup {[summary |-> "text", score |-> s] : s \in Scores}

\* the well-formed articles, met inside handle_message
Articles == {[keys |-> TRUE, summary |-> a.summary, score |-> a.score] : a \in ArticleBodies}

RECURSIVE SeqsUpTo(_, _)
SeqsUpTo(S, n) ==
    IF n = 0 THEN {<<>>}
    ELSE LET shorter == SeqsUpTo(S, n - 1)
         IN shorter \cup {Append(q, x) : q \in {r \in shorter : Len(r) = n - 1}, x \in S}

NewsResps ==
    {[kind |-> k, articles |-> <<>>] : k \in {"conn_error", "empty_body", "bad_json"}}
    \cup {[kind |-> "json", articles |-> a] : a \in SeqsUpTo(Articles, MaxNews)}

\* article.get("summary", "No summary available")
SummaryText(a) ==
    CASE a.summary = "absent" -> "No summary available"
      [] a.summary = "empty"  -> ""
      [] a.summary = "text"   -> "text"

\* a summary that is JSON null
NoSummary == "<None>"

classify_sentimentNoPlaceholder(text, score) ==
    IF text = NoSummary \/ text = "" THEN "neutral"
    ELSE IF score >= THRESHOLD THEN "positive"
    ELSE IF score <= -THRESHOLD THEN "negative"
    ELSE "neutral"
classify_sentimentMut(text, score) ==
    IF text = NoSummary \/ text = "" \/ text = "No summary available" THEN "neutral"
    ELSE IF score > THRESHOLD THEN "positive"
    ELSE IF score < -THRESHOLD THEN "negative"
    ELSE "neutral"
\* score is analyzer.polarity_scores(text)['compound'] in ten-thousandths
classify_sentiment(text, score) ==
    IF text = NoSummary \/ text = "" \/ text = "No summary available" THEN "neutral"
    ELSE IF score >= THRESHOLD THEN "positive"
    ELSE IF score <= -THRESHOLD THEN "negative"
    ELSE "neutral"

\* the emoji chosen for a sentiment in handle_message
Glyph(sentiment) ==
    IF sentiment = "positive" THEN "check"
    ELSE IF sentiment = "negative" THEN "cross"
    ELSE "warning"

\* sentiment.capitalize()
Capitalize(sentiment) ==
    CASE sentiment = "positive" -> "Positive"
      [] sentiment = "negative" -> "Negative"
      [] sentiment = "neutral"  -> "Neutral"

\* news_message: glyph, title and link, then the sentiment label
NewsMessage(sentiment) == Glyph(sentiment) \o " Sentiment: " \o Capitalize(sentiment)

\* the list comprehension over response_json.get("data", [])
NewsItemOf(a) == [summary |-> SummaryText(a), score |-> a.score]
NewsList(articles) ==
    IF \E n \in DOMAIN articles : ~articles[n].keys
       THEN [exc |-> "KeyError", list |-> <<>>]
       ELSE [exc |-> "none", list |-> [n \in DOMAIN articles |-> NewsItemOf(articles[n])]]

OnWriteErrorMut == "abort"
\* `except Exception as e: print(...)` around collection.add
OnWriteError == "continue"

\* `for news in news_list`: one collection.add per item; fails names the
\* items whose write raises
RECURSIVE WriteLoop(_, _, _, _)
WriteLoop(list, n, fails, acc) ==
    IF n > Len(list) THEN [aborted |-> FALSE, writes |-> acc]
    ELSE LET sentiment == classify_sentiment(list[n].summary, list[n].score)
             w == [item |-> n, sentiment |-> sentiment, ok |-> n \notin fails]
         IN IF n \in fails /\ OnWriteError = "abort"
               THEN [aborted |-> TRUE, writes |-> Append(acc, w)]
               ELSE WriteLoop(list, n + 1, fails, Append(acc, w))

\* raised: the connection fails outside the function's try block; otherwise
\* list is the value returned and writes the attempted index writes
fetch_news_source(resp, fails) ==
    CASE resp.kind = "conn_error" -> [raised |-> TRUE, list |-> <<>>, writes |-> <<>>]
      [] resp.kind = "empty_body" -> [raised |-> FALSE, list |-> <<>>, writes |-> <<>>]
      [] resp.kind = "bad_json"   -> [raised |-> FALSE, list |-> <<>>, writes |-> <<>>]
      [] resp.kind = "json"       ->
            LET l == NewsList(resp.articles) IN
            IF l.exc # "none"
               THEN [raised |-> FALSE, list |-> <<>>, writes |-> <<>>]
               ELSE LET w == WriteLoop(l.list, 1, fails, <<>>) IN
                    IF w.aborted
                       THEN [raised |-> FALSE, list |-> <<>>, writes |-> w.writes]
                       ELSE [raised |-> FALSE, list |-> l.list, writes |-> w.writes]

-----------------------------------------------------------------------------
(* handle_message: exception handlers *)

HandlerMut(site) ==
    CASE site \in {"invalid", "ack_chart", "fetch_chart", "chart_failed"} -> "unhandled"
      [] site \in {"photo", "analysis_text"} -> "apology"
      [] site \in {"timeout_notice", "timeout_photo"} -> "apology"
      [] site \in {"apology", "apology_photo"} -> "unhandled"
      [] site \in {"ack_news", "fetch_news", "news_item", "no_news"} -> "news_failed"
      [] site = "news_failed" -> "unhandled"
      [] site = "wait_for" -> "apology"
HandlerNewsMut(site) ==
    CASE site \in {"invalid", "ack_chart", "fetch_chart", "chart_failed"} -> "unhandled"
      [] site \in {"photo", "analysis_text"} -> "apology"
      [] site \in {"timeout_notice", "timeout_photo"} -> "apology"
      [] site \in {"apology", "apology_photo"} -> "unhandled"
      [] site \in {"fetch_news", "news_item", "no_news"} -> "news_failed"
      [] site = "ack_news" -> "apology"
      [] site = "news_failed" -> "unhandled"
      [] site = "wait_for" -> "timeout_notice"
\* where control goes when the code at `site` raises: the innermost enclosing
\* try whose except clause matches
Handler(site) ==
    CASE site \in {"invalid", "ack_chart", "fetch_chart", "chart_failed"} -> "unhandled"
      [] site \in {"photo", "analysis_text"} -> "apology"
      [] site \in {"timeout_notice", "timeout_photo"} -> "apology"
      [] site \in {"apology", "apology_photo"} -> "unhandled"
      [] site \in {"ack_news", "fetch_news", "news_item", "no_news"} -> "news_failed"
      [] site = "news_failed" -> "unhandled"
      [] site = "wait_for" -> "timeout_notice"

BareExceptMut == "raised"
\* `except: pass` around the final notification
BareExcept == "normal"

\* update.message.chat.id in the outer handler; 0 stands for the
\* AttributeError of None.chat
ErrorNoticeChat(u) == IF u.shape = "message" THEN u.chat ELSE 0

-----------------------------------------------------------------------------
(* State machine *)

Msg(site, text, ok) == [site |-> site, text |-> text, chat |-> chat_id, ok |-> ok]

Init ==
    /\ pc = "start"
    /\ update \in [shape : {"message", "channel_post", "none"}, chat : Chats, text : Texts]
    /\ cfg \in [deepseek : BOOLEAN, alpha : BOOLEAN]
    /\ chat_id = 0
    /\ stock_symbol = <<>>
    /\ chart_url = "unset"
    /\ analysis_prompt = "unset"
    /\ analysis_result = "unset"
    /\ hist = [fetched |-> FALSE, data |-> <<>>]
    /\ elapsed = 0
    /\ llm_delay = 0
    /\ llm_task = "none"
    /\ llm_resp = "none"
    /\ llm_calls = 0
    /\ timed_out = FALSE
    /\ news_source = <<>>
    /\ news_state = "none"
    /\ news_idx = 0
    /\ outbox = <<>>
    /\ calls = <<>>
    /\ returned = "running"
    /\ probe = <<>>

Finish == pc' = "done" /\ returned' = "normal"

\* one bot.send_message / bot.send_photo at `site`: delivered, or it raises
SendAt(site, text, next) ==
    /\ pc = site
    /\ \E ok \in BOOLEAN :
          /\ outbox' = Append(outbox, Msg(site, text, ok))
          /\ IF ok
                THEN IF next = "done" THEN Finish ELSE pc' = next /\ UNCHANGED returned
                ELSE pc' = Handler(site) /\ UNCHANGED returned

\* app.py:107-119
Receive ==
    /\ pc = "start"
    /\ IF Message(update) = "none"
          THEN Finish /\ UNCHANGED <<chat_id, stock_symbol>>
          ELSE /\ chat_id' = update.chat
               /\ UNCHANGED returned
               /\ IF TextFalsy(update.text)
                     THEN pc' = "invalid" /\ UNCHANGED stock_symbol
                     ELSE pc' = "ack_chart" /\ stock_symbol' = StripUpper(update.text)
    /\ UNCHANGED <<probe, update, cfg, chart_url, analysis_prompt, analysis_result, hist,
                   elapsed, llm_delay, llm_task, llm_resp, llm_calls, timed_out, news_source, news_state,
                   news_idx, outbox, calls>>

Rest == <<probe, update, cfg, chat_id, stock_symbol, chart_url, analysis_prompt,
          analysis_result, hist, elapsed, llm_delay, llm_task, llm_resp, llm_calls, timed_out,
          news_source, news_state, news_idx, calls>>

\* app.py:115-116
SendInvalid == SendAt("invalid", "invalid", "done") /\ UNCHANGED Rest

\* app.py:121
SendAck == SendAt("ack_chart", "ack_chart", "fetch_chart") /\ UNCHANGED Rest

\* app.py:123-125
FetchChart ==
    /\ pc = "fetch_chart"
    /\ \E resp \in ChartResps :
          LET r == fetch_stock_chart(resp) IN
          /\ calls' = Append(calls, "chart")
          /\ IF r = "RAISE"
                THEN pc' = Handler("fetch_chart") /\ UNCHANGED chart_url
                ELSE /\ chart_url' = r
                     /\ pc' = IF ChartTruthy(r) THEN "ocr" ELSE "chart_failed"
    /\ UNCHANGED <<probe, update, cfg, chat_id, stock_symbol, analysis_prompt,
                   analysis_result, hist, elapsed, llm_delay, llm_task, llm_resp, llm_calls,
                   timed_out, news_source, news_state, news_idx, outbox, returned>>

\* app.py:177
SendChartFailed == SendAt("chart_failed", "chart_failed", "done") /\ UNCHANGED Rest

\* app.py:128
Ocr ==
    /\ pc = "ocr"
    /\ \E resp \in OcrResps :
          /\ analysis_prompt' = analyze_stock_chart_with_ocr(resp)
          /\ calls' = Append(calls, "ocr")
    /\ pc' = "analysis"
    /\ UNCHANGED <<probe, update, cfg, chat_id, stock_symbol, chart_url, analysis_result,
                   hist, elapsed, llm_delay, llm_task, llm_resp, llm_calls, timed_out,
                   news_source, news_state, news_idx, outbox, returned>>

\* app.py:132-133 entering ai_analysis.py:285-306 and 248-256
AnalysisBegin ==
    /\ pc = "analysis"
    /\ calls' = Append(calls, "analysis")
    /\ IF stock_symbol = <<>>
          THEN /\ analysis_result' = HandlerResult("NoSymbolText")
               /\ pc' = "photo"
          ELSE /\ pc' = "hist"
               /\ UNCHANGED analysis_result
    /\ UNCHANGED <<probe, update, cfg, chat_id, stock_symbol, chart_url, analysis_prompt,
                   hist, elapsed, llm_delay, llm_task, llm_resp, llm_calls, timed_out,
                   news_source, news_state, news_idx, outbox, returned>>

\* ai_analysis.py:258-263 (the awaited fetch runs inside wait_for)
FetchHistorical ==
    /\ pc = "hist"
    /\ calls' = Append(calls, "hist")
    /\ \E resp \in HistResps, d \in Delays :
          /\ HistRequestSent(stock_symbol, cfg.alpha) \/ (d = 0 /\ resp.kind = "transport")
          /\ elapsed' = elapsed + d
          /\ IF WaitForExpired(elapsed + d)
                THEN /\ timed_out' = TRUE
                     /\ pc' = Handler("wait_for")
                     /\ UNCHANGED <<hist, analysis_result>>
                ELSE LET r == async_fetch_historical_data(stock_symbol, cfg.alpha, resp) IN
                     /\ UNCHANGED timed_out
                     /\ IF r.raised
                           THEN /\ analysis_result' = HandlerResult("ErrorAnalyzingText")
                                /\ pc' = "photo"
                                /\ UNCHANGED hist
                           ELSE /\ hist' = [fetched |-> TRUE, data |-> r.data]
                                /\ IF ChainAfterFetch(r.data) = "return_data_unavailable"
                                      THEN /\ analysis_result' =
                                                HandlerResult(AnalysisReturn("DataUnavailableText"))
                                           /\ pc' = "photo"
                                      ELSE /\ pc' = "llm"
                                           /\ UNCHANGED analysis_result
    /\ UNCHANGED <<probe, update, cfg, chat_id, stock_symbol, chart_url, analysis_prompt,
                   llm_delay, llm_task, llm_resp, llm_calls, news_source, news_state,
                   news_idx, outbox, returned>>

\* ai_analysis.py:266-280 with DeepSeekLLM._acall (43-84), back to app.py:132-139
CallLLM ==
    /\ pc = "llm"
    /\ IF ~LLMRequestSent(cfg.deepseek)
          THEN /\ analysis_result' =
                    HandlerResult(AnalysisReturn(DeepSeekLLM_acall(cfg.deepseek, "content")))
               /\ pc' = "photo"
               /\ UNCHANGED <<elapsed, llm_delay, llm_task, llm_resp, llm_calls, timed_out, calls>>
          ELSE \E resp \in LLMResps, d \in Delays :
                  /\ llm_calls' = llm_calls + 1
                  /\ calls' = Append(calls, "llm")
                  /\ llm_resp' = resp
                  /\ elapsed' = elapsed + d
                  /\ llm_delay' = d
                  /\ IF WaitForExpired(elapsed + d)
                        THEN /\ timed_out' = TRUE
                             /\ llm_task' = "cancelled"
                             /\ pc' = Handler("wait_for")
                             /\ UNCHANGED analysis_result
                        ELSE LET r == DeepSeekLLM_acall(cfg.deepseek, resp) IN
                             /\ llm_task' = "finished"
                             /\ UNCHANGED timed_out
                             /\ IF ChainAfterCall(r, llm_calls + 1) = "retry"
                                   THEN pc' = "llm" /\ UNCHANGED analysis_result
                                   ELSE /\ analysis_result' = HandlerResult(AnalysisReturn(r))
                                        /\ pc' = "photo"
    /\ UNCHANGED <<probe, update, cfg, chat_id, stock_symbol, chart_url, analysis_prompt,
                   hist, news_source, news_state, news_idx, outbox, returned>>

\* app.py:142
SendPhoto == SendAt("photo", "chart", "analysis_text") /\ UNCHANGED Rest

\* app.py:145
SendAnalysis == SendAt("analysis_text", analysis_result, "ack_news") /\ UNCHANGED Rest

\* app.py:147-150
SendTimeoutNotice ==
    SendAt("timeout_notice", "timeout_notice", "timeout_photo") /\ UNCHANGED Rest

\* app.py:151
SendTimeoutPhoto == SendAt("timeout_photo", "chart", "ack_news") /\ UNCHANGED Rest

\* app.py:152-157
SendApology == SendAt("apology", "apology", "apology_photo") /\ UNCHANGED Rest

\* app.py:158
SendApologyPhoto == SendAt("apology_photo", "chart", "ack_news") /\ UNCHANGED Rest

\* app.py:162
SendNewsAck == SendAt("ack_news", "ack_news", "fetch_news") /\ UNCHANGED Rest

NewsBranchMut(list) == IF Len(list) > 1 THEN "news_item" ELSE "no_news"
\* `if news_source and len(news_source) > 0:`
NewsBranch(list) == IF Len(list) > 0 THEN "news_item" ELSE "no_news"

\* app.py:163-165
FetchNews ==
    /\ pc = "fetch_news"
    /\ calls' = Append(calls, "news")
    /\ \E resp \in NewsResps, fails \in SUBSET (1..MaxNews) :
          LET r == fetch_news_source(resp, fails) IN
          IF r.raised
             THEN /\ pc' = Handler("fetch_news")
                  /\ news_state' = "raised"
                  /\ UNCHANGED <<news_source, news_idx>>
             ELSE /\ news_source' = r.list
                  /\ news_state' = "returned"
                  /\ pc' = NewsBranch(r.list)
                  /\ news_idx' = 1
    /\ UNCHANGED <<probe, update, cfg, chat_id, stock_symbol, chart_url, analysis_prompt,
                   analysis_result, hist, elapsed, llm_delay, llm_task, llm_resp, llm_calls,
                   timed_out, outbox, returned>>

\* app.py:166-170, one iteration of the loop
SendNewsItem ==
    /\ pc = "news_item"
    /\ LET news == news_source[news_idx]
           sentiment == classify_sentiment(news.summary, news.score)
       IN \E ok \in BOOLEAN :
             /\ outbox' = Append(outbox, Msg("news_item", NewsMessage(sentiment), ok))
             /\ IF ~ok
                   THEN pc' = Handler("news_item") /\ UNCHANGED <<news_idx, returned>>
                   ELSE IF news_idx < Len(news_source)
                           THEN /\ news_idx' = news_idx + 1
                                /\ UNCHANGED <<pc, returned>>
                           ELSE Finish /\ UNCHANGED news_idx
    /\ UNCHANGED <<probe, update, cfg, chat_id, stock_symbol, chart_url, analysis_prompt,
                   analysis_result, hist, elapsed, llm_delay, llm_task, llm_resp, llm_calls,
                   timed_out, news_source, news_state, calls>>

\* app.py:172
SendNoNews == SendAt("no_news", "no_news", "done") /\ UNCHANGED Rest

\* app.py:173-175
SendNewsFailed == SendAt("news_failed", "news_failed", "done") /\ UNCHANGED Rest

\* app.py:178-183
Unhandled ==
    /\ pc = "unhandled"
    /\ pc' = "done"
    /\ IF ErrorNoticeChat(update) = 0
          THEN /\ returned' = BareExcept
               /\ UNCHANGED outbox
          ELSE \E ok \in BOOLEAN :
                  /\ outbox' = Append(outbox,
                        [site |-> "error_notice", text |-> "error_notice",
                         chat |-> ErrorNoticeChat(update), ok |-> ok])
                  /\ returned' = IF ok THEN "normal" ELSE BareExcept
    /\ UNCHANGED Rest

Next ==
    \/ Receive
    \/ SendInvalid
    \/ SendAck
    \/ FetchChart
    \/ SendChartFailed
    \/ Ocr
    \/ AnalysisBegin
    \/ FetchHistorical
    \/ CallLLM
    \/ SendPhoto
    \/ SendAnalysis
    \/ SendTimeoutNotice
    \/ SendTimeoutPhoto
    \/ SendApology
    \/ SendApologyPhoto
    \/ SendNewsAck
    \/ FetchNews
    \/ SendNewsItem
    \/ SendNoNews
    \/ SendNewsFailed
    \/ Unhandled

Spec == Init /\ [][Next]_vars

-----------------------------------------------------------------------------
(* Vocabulary of the properties *)

Done == pc = "done"
Sent(site) == \E i \in DOMAIN outbox : outbox[i].site = site
Called(stage) == \E i \in DOMAIN calls : calls[i] = stage
Sites == [i \in DOMAIN outbox |-> outbox[i].site]
AllDelivered == \A i \in DOMAIN outbox : outbox[i].ok
ChartImageSent == \E i \in DOMAIN outbox : outbox[i].text = "chart"
NoUrl == chart_url \in {"None", ""}
FirstNews == CHOOSE i \in DOMAIN outbox : outbox[i].site = "ack_news"

\* sends made inside the chart/analysis stage (app.py:126-158)
ChartStageSites == {"photo", "analysis_text", "timeout_notice", "timeout_photo",
                    "apology", "apology_photo"}

\* an exception reached the outer handler (app.py:178)
UnhandledError ==
    \/ \E i \in DOMAIN outbox :
          /\ ~outbox[i].ok
          /\ outbox[i].site \in {"invalid", "ack_chart", "chart_failed", "apology",
                                 "apology_photo", "news_failed"}
    \/ Called("chart") /\ chart_url = "unset" /\ pc # "fetch_chart"

LLMFailed == llm_task = "finished" /\ llm_resp \in {"non200", "transport", "malformed"}

-----------------------------------------------------------------------------
(* C1 *)

\* C1 as stated: when the chart renderer returns no URL, the apology is the
\* only outbound message of the whole request and no further stage is invoked.
C1_SingleMessage ==
    (Done /\ NoUrl) =>
        /\ Len(outbox) = 1
        /\ outbox[1].site = "chart_failed"
        /\ calls = <<"chart">>

\* C1 amended: when the chart renderer returns no URL, no further stage is
\* invoked (the chart call is the only one), and the messages are the
\* 'Fetching chart' acknowledgment followed by the chart apology; the only
\* other message is one 'processing error' notification, attempted when the
\* send of the apology fails.
C1_AckThenApology ==
    NoUrl =>
        /\ calls = <<"chart">>
        /\ Len(outbox) >= 1 /\ outbox[1].site = "ack_chart" /\ outbox[1].ok
        /\ Len(outbox) >= 2 => outbox[2].site = "chart_failed"
        /\ Len(outbox) >= 3 =>
              /\ Len(outbox) = 3
              /\ ~outbox[2].ok
              /\ outbox[3].site = "error_notice"
        /\ Done => Len(outbox) >= 2

C1_Witness ==
    /\ Done /\ chart_url = "None"
    /\ Sites = <<"ack_chart", "chart_failed">>
    /\ AllDelivered
    /\ calls = <<"chart">>

-----------------------------------------------------------------------------
(* C2 *)

-----------------------------------------------------------------------------
(* C3 *)

\* C3: whenever the chart renderer returned a URL, a send of the chart image
\* has been attempted by the time the handler finishes.
C3_ChartAlwaysSent == (Done /\ chart_url = "URL") => ChartImageSent

-----------------------------------------------------------------------------
(* C4 *)

\* C4: whenever the chart renderer returned a URL, the news stage is executed
\* before the handler finishes: the 'Fetching news' acknowledgment is sent
\* and, once it is delivered, fetch_news_source is called.
C4_NewsAlwaysRuns ==
    (Done /\ chart_url = "URL") =>
        /\ Sent("ack_news")
        /\ outbox[FirstNews].ok => Called("news")

-----------------------------------------------------------------------------
(* C5 *)

\* C5: an exception raised by a send inside the chart/analysis stage never
\* prevents the news stage from running in the same request.
C5_StageBoundary ==
    (Done /\ \E i \in DOMAIN outbox :
                outbox[i].site \in ChartStageSites /\ ~outbox[i].ok)
        => Sent("ack_news")

-----------------------------------------------------------------------------
(* C6 *)

\* C6: no exception escapes handle_message; whenever the handler is finished
\* it has returned normally, also when the final notification cannot be sent.
C6_NoEscape ==
    /\ returned # "raised"
    /\ Done <=> returned = "normal"

C6_Witness ==
    /\ Done /\ returned = "normal"
    /\ Len(outbox) >= 2
    /\ outbox[Len(outbox)].site = "error_notice"
    /\ ~outbox[Len(outbox)].ok

-----------------------------------------------------------------------------
(* C7 *)

\* C7: for a direct message and for a channel post alike, when an unhandled
\* error occurred a send of the error notification to the chat of the update
\* has been attempted by the time the handler finishes.
C7_ErrorNotified ==
    (Done /\ UnhandledError) =>
        \E i \in DOMAIN outbox :
            outbox[i].site = "error_notice" /\ outbox[i].chat = chat_id

-----------------------------------------------------------------------------
(* C8 *)

\* C8: a completion-service failure is told apart from success and timeout:
\* the handler sends the apology and never sends the failure as the analysis
\* text; on timeout it sends the 'analysis delayed' notice.
C8_FailureDistinct ==
    /\ (Done /\ LLMFailed) => (Sent("apology") /\ ~Sent("analysis_text"))
    /\ (Done /\ timed_out) => Sent("timeout_notice")

-----------------------------------------------------------------------------
(* C9 *)

\* C9: when the market-data fetch yields an empty sequence the engine returns
\* the data-unavailable result and the completion service is not called.
C9_NoDataNoLLM ==
    (hist.fetched /\ hist.data = <<>>) =>
        /\ llm_calls = 0
        /\ ~Called("llm")
        /\ llm_task = "none"
        /\ analysis_result = "DataUnavailableText"

C9_Witness ==
    /\ Done /\ cfg.alpha /\ cfg.deepseek
    /\ hist.fetched /\ hist.data = <<>>
    /\ analysis_result = "DataUnavailableText"
    /\ llm_calls = 0

-----------------------------------------------------------------------------
(* C10 *)

\* C10: the completion service is called at most once per request, and once
\* the timeout has expired the abandoned call's result is never sent.
C10_AtMostOneCall ==
    /\ llm_calls <= 1
    /\ Cardinality({i \in DOMAIN calls : calls[i] = "llm"}) <= 1
    /\ timed_out => (~Sent("analysis_text") /\ analysis_result = "unset")
    /\ llm_task = "cancelled" => timed_out

C10_Witness ==
    /\ Done /\ llm_calls = 1
    /\ llm_task = "cancelled" /\ timed_out
    /\ Sent("ack_news")

-----------------------------------------------------------------------------
(* C11 *)

\* C11: fetch_stock_chart never raises to handle_message: once it has been
\* called it has returned a value, and when that value is no URL the handler
\* sends the chart-specific apology.
C11_ChartNeverRaises ==
    Called("chart") =>
        /\ chart_url # "unset"
        /\ (Done /\ chart_url # "URL") => Sent("chart_failed")

-----------------------------------------------------------------------------
(* A client called on its own: the handler's variables stay at rest, probe
   holds the arguments and then the result *)

Others == <<update, cfg, chat_id, stock_symbol, chart_url, analysis_prompt,
            analysis_result, hist, elapsed, llm_delay, llm_task, llm_resp, llm_calls,
            timed_out, news_source, news_state, news_idx, outbox, calls, returned>>

Idle ==
    /\ update = [shape |-> "none", chat |-> 1, text |-> NoText]
    /\ cfg = [deepseek |-> TRUE, alpha |-> TRUE]
    /\ chat_id = 0
    /\ stock_symbol = <<>>
    /\ chart_url = "unset"
    /\ analysis_prompt = "unset"
    /\ analysis_result = "unset"
    /\ hist = [fetched |-> FALSE, data |-> <<>>]
    /\ elapsed = 0
    /\ llm_delay = 0
    /\ llm_task = "none"
    /\ llm_resp = "none"
    /\ llm_calls = 0
    /\ timed_out = FALSE
    /\ news_source = <<>>
    /\ news_state = "none"
    /\ news_idx = 0
    /\ outbox = <<>>
    /\ calls = <<>>
    /\ returned = "running"

Returned == pc = "returned"

DistinctDates(q) == \A i, j \in DOMAIN q : i # j => q[i].date # q[j].date

-----------------------------------------------------------------------------
(* async_fetch_historical_data on its own *)

HistEntries == [date : 1..MaxEntries, close : {8}, volume : {5}, kind : EntryKinds]

HistRespsFull ==
    {[kind |-> k, entries |-> <<>>] : k \in {"non200", "bad_json", "transport"}}
    \cup {[kind |-> "ok", entries |-> q] :
            q \in {r \in SeqsUpTo(HistEntries, MaxEntries) : DistinctDates(r)}}

InitHist ==
    /\ Idle
    /\ pc = "call"
    /\ probe \in {[in |-> i, out |-> [raised |-> FALSE, data |-> <<>>]] :
                    i \in [symbol : {<<>>, <<"A">>}, key : BOOLEAN, resp : HistRespsFull]}

CallHist ==
    /\ pc = "call"
    /\ pc' = "returned"
    /\ probe' = [probe EXCEPT !.out =
                    async_fetch_historical_data(probe.in.symbol, probe.in.key, probe.in.resp)]
    /\ UNCHANGED Others

NextHist == CallHist

SpecHist == InitHist /\ [][NextHist]_vars

-----------------------------------------------------------------------------
(* C12 *)

\* the request fails before any entry of a series is read
NoSeries(i) ==
    \/ i.symbol = <<>>
    \/ ~i.key
    \/ i.resp.kind # "ok"
    \/ i.resp.entries = <<>>

HasKind(i, k) == \E n \in DOMAIN i.resp.entries : i.resp.entries[n].kind = k

PointsOf(q) == [n \in DOMAIN q |-> EntryPoint(q[n])]

Parsable(e) == e.kind # "bad_value"

\* C12 as stated: the client never raises, returns the empty sequence on
\* every failure, unparsable values included, and otherwise the points of
\* the response.
C12_EmptyOnAnyFailure ==
    Returned =>
        /\ ~probe.out.raised
        /\ probe.out.data =
              IF \/ NoSeries(probe.in)
                 \/ HasKind(probe.in, "bad_value")
                 \/ HasKind(probe.in, "not_dict")
                 THEN <<>>
                 ELSE PointsOf(probe.in.resp.entries)

\* C12 amended: the client never raises; it returns the empty sequence when
\* the symbol or the API key is missing, on a network error, a non-200
\* status, an undecodable body, a missing series or an entry that is no
\* record; otherwise it returns, in response order, the points of the entries
\* whose values parse, skipping every entry with an unparsable value.
C12_SkipsUnparsable ==
    Returned =>
        /\ ~probe.out.raised
        /\ probe.out.data =
              IF NoSeries(probe.in) \/ HasKind(probe.in, "not_dict")
                 THEN <<>>
                 ELSE PointsOf(SelectSeq(probe.in.resp.entries, Parsable))

C12_Witness ==
    /\ Returned
    /\ ~NoSeries(probe.in)
    /\ HasKind(probe.in, "bad_value") /\ HasKind(probe.in, "ok")
    /\ Len(probe.out.data) = 1

-----------------------------------------------------------------------------
(* C13 *)

\* C13: fetch_news_source never raises to handle_message: once called it has
\* returned a list, and for the empty list the handler reports 'no news
\* found'.
C13_NewsNeverRaises ==
    Called("news") =>
        /\ news_state = "returned"
        /\ (Done /\ news_source = <<>>) => Sent("no_news")

-----------------------------------------------------------------------------
(* fetch_news_source on its own *)

ArticlesFull ==
    {[keys |-> k, summary |-> a.summary, score |-> a.score] :
        k \in BOOLEAN, a \in ArticleBodies}

NewsRespsFull ==
    {[kind |-> k, articles |-> <<>>] : k \in {"conn_error", "empty_body", "bad_json"}}
    \cup {[kind |-> "json", articles |-> a] : a \in SeqsUpTo(ArticlesFull, MaxNews)}

InitNews ==
    /\ Idle
    /\ pc = "call"
    /\ probe \in {[in |-> i, out |-> [raised |-> FALSE, list |-> <<>>, writes |-> <<>>]] :
                    i \in [resp : NewsRespsFull, fails : SUBSET (1..MaxNews)]}

CallNews ==
    /\ pc = "call"
    /\ pc' = "returned"
    /\ probe' = [probe EXCEPT !.out = fetch_news_source(probe.in.resp, probe.in.fails)]
    /\ UNCHANGED Others

NextNews == CallNews

SpecNews == InitNews /\ [][NextNews]_vars

-----------------------------------------------------------------------------
(* C14 *)

\* the response carries a list of articles with title and url
Retrieved(i) ==
    /\ i.resp.kind = "json"
    /\ \A n \in DOMAIN i.resp.articles : i.resp.articles[n].keys

\* C14: for every subset of items whose index write fails, every item's
\* write is still attempted, in order, and the function returns the full
\* list of retrieved items, as it does when every write succeeds.
C14_WriteFailureHarmless ==
    (Returned /\ Retrieved(probe.in)) =>
        LET arts == probe.in.resp.articles
            out == probe.out
        IN /\ ~out.raised
           /\ Len(out.list) = Len(arts)
           /\ \A n \in DOMAIN arts :
                 /\ out.list[n].summary = SummaryText(arts[n])
                 /\ out.list[n].score = arts[n].score
           /\ Len(out.writes) = Len(arts)
           /\ \A n \in DOMAIN out.writes :
                 /\ out.writes[n].item = n
                 /\ out.writes[n].ok <=> n \notin probe.in.fails
           /\ out.list = fetch_news_source(probe.in.resp, {}).list

C14_Witness ==
    /\ Returned /\ Retrieved(probe.in)
    /\ Len(probe.in.resp.articles) = 2
    /\ probe.in.fails = {1}
    /\ Len(probe.out.list) = 2
    /\ ~probe.out.writes[1].ok /\ probe.out.writes[2].ok

-----------------------------------------------------------------------------
(* classify_sentiment on its own *)

SentimentTexts == {NoSummary, "", "No summary available", "text"}

\* compound scores: the two ends of the scale and everything around the
\* thresholds
SentimentScores == {-10000, 10000} \cup (-MaxScore..MaxScore)

InitSentiment ==
    /\ Idle
    /\ pc = "call"
    /\ probe \in {[in |-> i, out |-> "pending"] :
                    i \in [text : SentimentTexts, score : SentimentScores]}

CallSentiment ==
    /\ pc = "call"
    /\ pc' = "returned"
    /\ probe' = [probe EXCEPT !.out = classify_sentiment(probe.in.text, probe.in.score)]
    /\ UNCHANGED Others

NextSentiment == CallSentiment

SpecSentiment == InitSentiment /\ [][NextSentiment]_vars

-----------------------------------------------------------------------------
(* C15 *)

\* C15: classify_sentiment is total; empty or placeholder text is neutral
\* whatever the score; otherwise a score of at least +0.05 is positive, a
\* score of at most -0.05 is negative and a score strictly between is neutral.
C15_Thresholds ==
    Returned =>
        LET t == probe.in.text
            c == probe.in.score
        IN /\ probe.out \in {"positive", "negative", "neutral"}
           /\ t \in {"", "No summary available"} => probe.out = "neutral"
           /\ (t = "text" /\ c >= 500) => probe.out = "positive"
           /\ (t = "text" /\ c <= -500) => probe.out = "negative"
           /\ (t = "text" /\ -500 < c /\ c < 500) => probe.out = "neutral"

C15_Witness ==
    /\ Returned
    /\ probe.in.text = "text" /\ probe.in.score = 500
    /\ probe.out = "positive"

-----------------------------------------------------------------------------
(* C16 *)

\* the messages sent by the loop over news_source, in send order
NewsItemMsgs == SelectSeq(outbox, LAMBDA x : x.site = "news_item")

\* C16: the message of an item without summary (absent or empty) carries the
\* warning glyph and the label Neutral, and in every item message the glyph
\* is the one of the sentiment named by the label.
C16_NoSummaryNeutral ==
    \A k \in DOMAIN NewsItemMsgs :
        /\ news_source[k].summary \in {"", "No summary available"}
              => NewsItemMsgs[k].text = "warning Sentiment: Neutral"
        /\ NewsItemMsgs[k].text \in {"check Sentiment: Positive",
                                     "cross Sentiment: Negative",
                                     "warning Sentiment: Neutral"}

C16_Witness ==
    /\ Done
    /\ Len(NewsItemMsgs) = 2
    /\ news_source[1].summary = "No summary available"
    /\ news_source[2].summary = "text"
    /\ NewsItemMsgs[1].text = "warning Sentiment: Neutral"
    /\ NewsItemMsgs[2].text = "cross Sentiment: Negative"

-----------------------------------------------------------------------------
(* format_historical_data on its own *)

DigestPoints == [date : 1..MaxSeries, close : {0, 800, 1000}, volume : {5, 7}]

\* the sequences of at most n points of S with distinct dates, in every order
RECURSIVE DistinctSeqs(_, _)
DistinctSeqs(S, n) ==
    IF n = 0 THEN {<<>>}
    ELSE LET shorter == DistinctSeqs(S, n - 1)
         IN shorter \cup
            UNION {{Append(q, x) : x \in {y \in S : \A k \in DOMAIN q : q[k].date # y.date}} :
                      q \in {r \in shorter : Len(r) = n - 1}}

InitDigest ==
    /\ Idle
    /\ pc = "call"
    /\ probe \in {[in |-> q, out |-> format_historical_data(<<>>)] :
                    q \in DistinctSeqs(DigestPoints, MaxSeries)}

CallDigest ==
    /\ pc = "call"
    /\ pc' = "returned"
    /\ probe' = [probe EXCEPT !.out = format_historical_data(probe.in)]
    /\ UNCHANGED Others

NextDigest == CallDigest

SpecDigest == InitDigest /\ [][NextDigest]_vars

-----------------------------------------------------------------------------
(* C17 *)

\* the points of a series in descending date order, built from the set of
\* its points
RECURSIVE Descending(_)
Descending(S) ==
    IF S = {} THEN <<>>
    ELSE LET newest == CHOOSE p \in S : \A q \in S : q.date <= p.date
         IN <<newest>> \o Descending(S \ {newest})

PointSet(q) == {q[n] : n \in DOMAIN q}

\* C17: for a series with distinct dates, in whatever order, the digest is
\* the digest of the same series sorted descending by date: the table runs
\* from the newest date down and the statistics are those of the sorted
\* series.
C17_OrderIndependent ==
    Returned =>
        LET presorted == Descending(PointSet(probe.in)) IN
        /\ probe.out = format_historical_data(presorted)
        /\ probe.in # <<>> =>
              /\ probe.out.table = presorted
              /\ probe.out.stats.newest_date = presorted[1].date
              /\ probe.out.stats.oldest_date = presorted[Len(presorted)].date
              /\ probe.out.stats.price_change =
                    presorted[1].close - presorted[Len(presorted)].close

C17_Witness ==
    /\ Returned
    /\ Len(probe.in) = 3
    /\ probe.in[1].date = 1 /\ probe.in[2].date = 3 /\ probe.in[3].date = 2
    /\ probe.out.table[1].date = 3 /\ probe.out.table[3].date = 1
    /\ probe.out.stats.price_change # 0

-----------------------------------------------------------------------------
(* C18 *)

NoNewsCount == Cardinality({i \in DOMAIN outbox : outbox[i].site = "no_news"})

\* what handle_message renders for an item of the list
Rendered(news) == NewsMessage(classify_sentiment(news.summary, news.score))

\* C18 as stated: an empty list gives exactly one 'no news found' message
\* and no item message; a list of n items gives exactly n item messages, one
\* per item in list order, and no 'no news found' message.
C18_ExactlyN ==
    (Done /\ news_state = "returned") =>
        IF news_source = <<>>
           THEN NoNewsCount = 1 /\ NewsItemMsgs = <<>>
           ELSE /\ NoNewsCount = 0
                /\ Len(NewsItemMsgs) = Len(news_source)
                /\ \A k \in DOMAIN NewsItemMsgs :
                      NewsItemMsgs[k].text = Rendered(news_source[k])

\* C18 amended: an empty list gives exactly one 'no news found' message and
\* no item message; a list of n items gives no 'no news found' message and
\* item messages one per item in list order: all n when every item send is
\* delivered, otherwise the items up to and including the first whose send
\* fails.
C18_ItemsInOrder ==
    /\ news_state # "returned" => (NoNewsCount = 0 /\ NewsItemMsgs = <<>>)
    /\ news_state = "returned" =>
          IF news_source = <<>>
             THEN /\ NewsItemMsgs = <<>>
                  /\ NoNewsCount <= 1
                  /\ pc # "no_news" => NoNewsCount = 1
             ELSE /\ NoNewsCount = 0
                  /\ Len(NewsItemMsgs) <= Len(news_source)
                  /\ \A k \in DOMAIN NewsItemMsgs :
                        /\ NewsItemMsgs[k].text = Rendered(news_source[k])
                        /\ k < Len(NewsItemMsgs) => NewsItemMsgs[k].ok
                  /\ Done =>
                        /\ Len(NewsItemMsgs) >= 1
                        /\ \/ Len(NewsItemMsgs) = Len(news_source)
                           \/ ~NewsItemMsgs[Len(NewsItemMsgs)].ok

C18_Witness ==
    /\ Done /\ news_state = "returned"
    /\ Len(news_source) = 2
    /\ Len(NewsItemMsgs) = 2
    /\ NewsItemMsgs[1].ok /\ NewsItemMsgs[2].ok
    /\ NewsItemMsgs[1].text # NewsItemMsgs[2].text
    /\ NoNewsCount = 0

-----------------------------------------------------------------------------
(* C19 *)

\* C19: every analysis text sent to the user is at most 4000 characters long.
C19_AnalysisBounded ==
    \A i \in DOMAIN outbox :
        outbox[i].site = "analysis_text" => TextLen(outbox[i].text) <= 4000

-----------------------------------------------------------------------------
(* C20 *)

\* C20: in a run with a non-empty text the 'Fetching chart' acknowledgment
\* is the first message, every chart-image and analysis, timeout or apology
\* message precedes the 'Fetching news' acknowledgment, and every news item
\* or 'no news found' message follows it.
C20_StageOrder ==
    (update.shape # "none" /\ ~TextFalsy(update.text)) =>
        /\ outbox # <<>> => outbox[1].site = "ack_chart"
        /\ \A i, j \in DOMAIN outbox :
              (outbox[i].site \in ChartStageSites /\ outbox[j].site = "ack_news")
                  => i < j
        /\ \A i \in DOMAIN outbox :
              outbox[i].site \in {"news_item", "no_news"}
                  => \E j \in 1..(i - 1) : outbox[j].site = "ack_news"

C20_Witness ==
    /\ Done /\ AllDelivered
    /\ Sites = <<"ack_chart", "photo", "analysis_text", "ack_news", "news_item">>

-----------------------------------------------------------------------------
(* C21 *)

\* C21: the request enters the timeout branch only when the completion
\* service itself takes longer than the budget: a slow historical-price
\* fetch with a completion service that answers within the budget never
\* raises the timeout.
C21_BudgetIsLLMOnly ==
    timed_out => (llm_task = "cancelled" /\ llm_delay > TIMEOUT)

-----------------------------------------------------------------------------
(* C22 *)

ChartDeliveries ==
    Cardinality({i \in DOMAIN outbox : outbox[i].text = "chart" /\ outbox[i].ok})

\* C22: within one request the chart image is delivered at most once, also
\* when the analysis text fails to send after the chart image was sent.
C22_ChartAtMostOnce == ChartDeliveries <= 1

-----------------------------------------------------------------------------
(* C23 *)

\* the text of the update is absent, empty or only whitespace
BlankText == TextFalsy(update.text) \/ RStrip(LStrip(update.text)) = <<>>

\* C23: the 'Fetching chart' acknowledgment is sent and the chart renderer
\* called only with a non-empty symbol; an update whose text is absent,
\* empty or only whitespace gets the single reply 'Please send a valid stock
\* symbol.' and no stage is invoked.
C23_BlankTextRejected ==
    /\ (Sent("ack_chart") \/ Called("chart")) => stock_symbol # <<>>
    /\ (update.shape # "none" /\ BlankText) =>
          /\ calls = <<>>
          /\ Done => Sites = <<"invalid">>

====
